---- MODULE Spec2Model ----
(***************************************************************************)
(* Model of the embedded-terminal controller (terminal_manager.py,         *)
(* class TerminalManager) and of the part of its host (chat_repl.py,       *)
(* class ChatApp) that drives it.                                          *)
(*                                                                         *)
(* Every public method of TerminalManager is one action.  The operating    *)
(* system is modelled by the table of child processes, the set of open     *)
(* descriptors and the set of descriptors registered with the event loop.  *)
(* What an operation hands to its caller (return value, escaped exception, *)
(* system messages, notifications, system calls) is recorded in the        *)
(* observation variables op, ret, raised, sys_msgs, stopped_cbs,           *)
(* ui_updates, syscalls, read_result and read_data, which always describe  *)
(* the step taken last.                                                    *)
(***************************************************************************)
EXTENDS Integers, Sequences, FiniteSets, TLC

\* ---------------------------------------------------------------- bounds
MaxSpawn == 2   \* processes the operating system lets the host fork
MaxBuf   == 2   \* bytes the ledger holds before the child stops writing
MaxChunk == 2   \* bytes one os.read returns at most
MaxSignals == 1 \* size changes of the host terminal during one callback
MaxRequests == 2 \* chat inputs the user sends
MaxNotes == 1   \* system lines added to the chat history by commands

\* ------------------------------------------------------------- constants
None == 0                      \* Python's None for child_pid and master_fd
PIDs == 1 .. MaxSpawn          \* process ids fork can return
FDs  == 1 .. MaxSpawn          \* descriptors pty.fork can return
Bytes == {65, 195, 169}        \* "A" and the two bytes of U+00E9
Replacement == 65533           \* U+FFFD, what errors='replace' substitutes
Requests == 1 .. MaxRequests   \* the chat inputs, in the order entered

VARIABLES
  child_pid,             \* self.child_pid
  master_fd,             \* self.master_fd
  readers,               \* descriptors with a reader registered in self.loop
  fd_open,               \* descriptors open in the host process
  proc,                  \* pid -> "unborn" | "running" | "zombie", or the
                         \* position of a child whose exec failed
  sigtermed,             \* pids the controller has sent SIGTERM to
  pty_winsize,           \* <<rows, cols>> last set on the open pty
  term_size,             \* what the host terminal reports as its size
  pyte_size,             \* <<rows, cols>> of self.pyte_screen
  full_output_buffer,    \* self.full_output_buffer
  last_output_position,  \* self.last_output_position
  pyte_fed,              \* every byte fed to self.pyte_stream, in order
  pyte_screen,           \* self.pyte_stream and self.pyte_screen: the bytes
                         \* the decoder holds back, the cells, the cursor
  pc,                    \* where the reader callback stands: "idle" if it
                         \* is not running
  sigwinch_handler,      \* "default" | "handle_resize"
  terminal_output,       \* self.state.terminal_output: "unset" | "empty"
  is_split,              \* self.state.is_split
  op,                    \* the operation that ran last
  ret,                   \* its return value (decoded text)
  raised,                \* TRUE iff an exception escaped to its caller
  sys_msgs,              \* system messages it added to the chat history
  stopped_cbs,           \* times it invoked session_stopped_callback
  ui_updates,            \* times it invoked update_ui_callback
  syscalls,              \* system / event-loop calls it made, in order
  read_result,           \* outcome of its os.read: "none" if it made none
  read_data,             \* the bytes its os.read returned
  arg,                   \* the text the user gave it: <<>> if it takes none
  \* The chat side of the host (AppState and the send_message tasks).
  chat_history,          \* state.chat_history, one record per line
  chat_messages_for_api, \* state.chat_messages_for_api
  send_task              \* request -> "new" | "awaiting" | its outcome

session == <<child_pid, master_fd, readers, fd_open, proc, sigtermed,
             pty_winsize>>
geometry == <<term_size, pyte_size>>
ledger  == <<full_output_buffer, last_output_position>>
hoststate == <<sigwinch_handler, terminal_output, is_split>>
emulator == <<pyte_fed, pyte_screen>>
persistent == <<session, ledger, emulator, hoststate, geometry, pc>>
observed == <<op, ret, raised, sys_msgs, stopped_cbs, ui_updates, syscalls,
              read_result, read_data, arg>>
chat == <<chat_history, chat_messages_for_api, send_task>>
vars == <<persistent, observed, chat>>

\* ------------------------------------------------------------- helpers
Min(S) == CHOOSE x \in S : \A y \in S : x <= y

Msg(m) == [msg |-> m, text |-> <<>>]
MsgText(m, t) == [msg |-> m, text |-> t]

\* Non-empty byte strings of at most n bytes.
Chunks(n) == UNION {[1 .. k -> Bytes] : k \in 1 .. n}

\* bytes.decode('utf-8', errors='replace') on the alphabet Bytes: 0x41 is
\* "A", 0xC3 0xA9 is U+00E9, a lead byte without its continuation byte and
\* a continuation byte without a lead byte each become one U+FFFD.
RECURSIVE Decode(_)
Decode(bs) ==
  IF bs = <<>> THEN <<>>
  ELSE IF bs[1] = 65 THEN <<65>> \o Decode(Tail(bs))
  ELSE IF bs[1] = 195 /\ Len(bs) >= 2 /\ bs[2] = 169
       THEN <<233>> \o Decode(SubSeq(bs, 3, Len(bs)))
  ELSE <<Replacement>> \o Decode(Tail(bs))

\* Sizes <<rows, cols>> the host terminal can report; Indeterminate stands
\* for prompt_toolkit and os.get_terminal_size all failing.
Indeterminate == <<0, 0>>
TermSizes == {<<10, 80>>, <<30, 130>>, Indeterminate}

\* _get_terminal_size: the reported size, or the fallback 24 x 100.
GetTerminalSize(reported) ==
  IF reported = Indeterminate THEN <<24, 100>> ELSE reported

Max(a, b) == IF a >= b THEN a ELSE b

\* The size __init__ gives the pyte screen: at least 24 rows, 120 columns.
InitialScreenSize(reported) ==
  <<Max(GetTerminalSize(reported)[1], 24),
    Max(GetTerminalSize(reported)[2], 120)>>

\* The window size of a pty nobody has set yet.
UnsetWinsize == <<0, 0>>

\* ------------------------------------------------------------- emulator
\* One cell of the pyte screen with the attributes the renderer reads.
Char(data, fg, bg, bold, italics, underscore, reverse) ==
  [data |-> data, fg |-> fg, bg |-> bg, bold |-> bold, italics |-> italics,
   underscore |-> underscore, reverse |-> reverse]

\* A character drawn with the default rendition.
DefaultChar(data) ==
  Char(data, "default", "default", FALSE, FALSE, FALSE, FALSE)

\* The screen and stream __init__ builds: no byte held back, no cell
\* written, the cursor visible in the top-left corner.  buffer lists the
\* rows that hold cells, top row first, each row its cells left to right.
BlankScreen ==
  [pending |-> <<>>, buffer |-> <<>>,
   cursor |-> [y |-> 0, x |-> 0, hidden |-> FALSE]]

\* What the stream's incremental UTF-8 decoder makes of bs, as a pair
\* <<characters, bytes held back>>: like Decode, but a lead byte at the very
\* end waits for the next feed instead of becoming U+FFFD.  HeldBack is that
\* byte.
HeldBack(bs) ==
  IF bs # <<>> /\ bs[Len(bs)] = 195 THEN <<195>> ELSE <<>>

DecodeIncremental(bs) ==
  <<Decode(SubSeq(bs, 1, Len(bs) - Len(HeldBack(bs)))), HeldBack(bs)>>

\* Screen.draw for printable characters: each goes into the cell under the
\* cursor and the cursor moves one column right (the rows are at least 120
\* columns wide, so the right margin is out of reach of MaxBuf bytes).
\* The rows of scr, with empty rows added down to the cursor's row.
RowsToCursor(scr) ==
  IF Len(scr.buffer) <= scr.cursor.y
  THEN scr.buffer \o [i \in 1 .. (scr.cursor.y + 1 - Len(scr.buffer)) |-> <<>>]
  ELSE scr.buffer

\* A row with the character char in its cell x (0-based).
RowWith(row, x, char) ==
  IF x < Len(row)
  THEN [row EXCEPT ![x + 1] = DefaultChar(char)]
  ELSE row \o <<DefaultChar(char)>>

DrawChar(scr, char) ==
  [pending |-> scr.pending,
   buffer |-> [RowsToCursor(scr) EXCEPT ![scr.cursor.y + 1] =
                 RowWith(@, scr.cursor.x, char)],
   cursor |-> [scr.cursor EXCEPT !.x = @ + 1]]

RECURSIVE Draw(_, _)
Draw(scr, chars) ==
  IF chars = <<>> THEN scr
  ELSE Draw(DrawChar(scr, chars[1]), Tail(chars))

\* Mutant: every chunk decoded by itself, as bytes.decode does, so that a
\* character split over two chunks becomes two U+FFFD.
Feed_DecodesEachChunk(scr, data) == Draw(scr, Decode(data))

\* self.pyte_stream.feed(data) on a ByteStream: the bytes held back and the
\* new ones are decoded and the characters drawn.
Feed(scr, data) ==
  Draw([scr EXCEPT !.pending = HeldBack(scr.pending \o data)],
       DecodeIncremental(scr.pending \o data)[1])

\* ------------------------------------------------------------------ Init
\* Everything __init__ sets but the contents of the pyte screen.
InitController ==
  /\ term_size \in TermSizes
  /\ pyte_size = InitialScreenSize(term_size)
  /\ pty_winsize = UnsetWinsize
  /\ child_pid = None
  /\ master_fd = None
  /\ readers = {}
  /\ fd_open = {}
  /\ proc = [p \in PIDs |-> "unborn"]
  /\ sigtermed = {}
  /\ full_output_buffer = <<>>
  /\ last_output_position = 0
  /\ pyte_fed = <<>>
  /\ sigwinch_handler = "default"
  /\ terminal_output = "unset"
  /\ is_split = FALSE
  /\ op = "init"
  /\ ret = <<>>
  /\ raised = FALSE
  /\ sys_msgs = <<>>
  /\ stopped_cbs = 0
  /\ ui_updates = 0
  /\ syscalls = <<>>
  /\ read_result = "none"
  /\ read_data = <<>>
  /\ arg = <<>>
  /\ pc = "idle"
  /\ chat_history = <<>>
  /\ chat_messages_for_api = <<>>
  /\ send_task = [r \in Requests |-> "new"]

Init ==
  /\ InitController
  /\ pyte_screen = BlankScreen


\* -------------------------------------------------------- stop_session
\* One system or event-loop call: its name, its descriptor or pid, the
\* bytes passed to it or returned by it, and its integer result.
Sys(c, a) == [call |-> c, arg |-> a, data |-> <<>>, result |-> 0]
SysData(c, a, d) == [call |-> c, arg |-> a, data |-> d, result |-> Len(d)]

\* Mutant: the descriptor is closed while its reader is still registered.
StopCalls_CloseFirst(fd, pid) ==
  (IF fd # None THEN <<Sys("close", fd), Sys("remove_reader", fd)>> ELSE <<>>)
  \o (IF pid # None THEN <<Sys("kill_SIGTERM", pid)>> ELSE <<>>)

\* The calls stop_session makes for descriptor fd and process pid: the
\* reader is removed before the descriptor is closed, then SIGTERM is sent.
StopCalls(fd, pid) ==
  (IF fd # None THEN <<Sys("remove_reader", fd), Sys("close", fd)>> ELSE <<>>)
  \o (IF pid # None THEN <<Sys("kill_SIGTERM", pid)>> ELSE <<>>)

\* The tail of stop_session, which runs on every call whether or not a
\* session was active: terminal_output is reset, "Terminal session
\* stopped." is added, the UI is redrawn, SIGWINCH goes back to SIG_DFL and
\* session_stopped_callback runs.
StopTail(msgs) ==
  /\ terminal_output' = "empty"
  /\ sys_msgs' = msgs \o <<Msg("Terminal session stopped.")>>
  /\ ui_updates' = 1
  /\ sigwinch_handler' = "default"
  /\ stopped_cbs' = 1

\* Mutant of the stop callback: state.is_split is left as it was.
OnTerminalSessionStopped_KeepsSplit == is_split' = is_split

\* ChatApp._on_terminal_session_stopped: clears is_split when it was set.
OnTerminalSessionStopped == is_split' = FALSE

\* Mutants of stop_session: child_pid not reset to None, remove_reader
\* forgotten, and master_fd not reset to None.
StopSessionBody_KeepsChild(fd, pid, rdrs, fopen, prc, msgs, calls) ==
  /\ readers' = IF fd # None THEN rdrs \ {fd} ELSE rdrs
  /\ fd_open' = IF fd # None THEN fopen \ {fd} ELSE fopen
  /\ master_fd' = None
  /\ proc' = prc
  /\ sigtermed' = IF pid # None THEN sigtermed \cup {pid} ELSE sigtermed
  /\ child_pid' = pid
  /\ pty_winsize' = IF fd # None THEN UnsetWinsize ELSE pty_winsize
  /\ syscalls' = calls \o StopCalls(fd, pid)
  /\ StopTail(msgs)
  /\ OnTerminalSessionStopped

StopSessionBody_KeepsReader(fd, pid, rdrs, fopen, prc, msgs, calls) ==
  /\ readers' = rdrs
  /\ fd_open' = IF fd # None THEN fopen \ {fd} ELSE fopen
  /\ master_fd' = None
  /\ proc' = prc
  /\ sigtermed' = IF pid # None THEN sigtermed \cup {pid} ELSE sigtermed
  /\ child_pid' = None
  /\ pty_winsize' = IF fd # None THEN UnsetWinsize ELSE pty_winsize
  /\ syscalls' = calls \o StopCalls(fd, pid)
  /\ StopTail(msgs)
  /\ OnTerminalSessionStopped

StopSessionBody_LeavesFdSet(fd, pid, rdrs, fopen, prc, msgs, calls) ==
  /\ readers' = IF fd # None THEN rdrs \ {fd} ELSE rdrs
  /\ fd_open' = IF fd # None THEN fopen \ {fd} ELSE fopen
  /\ master_fd' = fd
  /\ proc' = prc
  /\ sigtermed' = IF pid # None THEN sigtermed \cup {pid} ELSE sigtermed
  /\ child_pid' = None
  /\ pty_winsize' = IF fd # None THEN UnsetWinsize ELSE pty_winsize
  /\ syscalls' = calls \o StopCalls(fd, pid)
  /\ StopTail(msgs)
  /\ OnTerminalSessionStopped

\* stop_session entered with the handle <<fd, pid>>, the registered readers
\* rdrs, the open descriptors fopen and the process table prc, after the
\* caller has already added msgs and made calls.
StopSessionBody(fd, pid, rdrs, fopen, prc, msgs, calls) ==
  /\ readers' = IF fd # None THEN rdrs \ {fd} ELSE rdrs
  /\ fd_open' = IF fd # None THEN fopen \ {fd} ELSE fopen
  /\ master_fd' = None
  /\ proc' = prc
  /\ sigtermed' = IF pid # None THEN sigtermed \cup {pid} ELSE sigtermed
  /\ child_pid' = None
  /\ pty_winsize' = IF fd # None THEN UnsetWinsize ELSE pty_winsize
  /\ syscalls' = calls \o StopCalls(fd, pid)
  /\ StopTail(msgs)
  /\ OnTerminalSessionStopped

StopSession ==
  /\ op' = "stop_session"
  /\ StopSessionBody(master_fd, child_pid, readers, fd_open, proc, <<>>, <<>>)
  /\ ret' = <<>>
  /\ raised' = FALSE
  /\ read_result' = "none"
  /\ read_data' = <<>>
  /\ arg' = <<>>
  /\ UNCHANGED <<ledger, emulator, geometry, pc>>

\* ------------------------------------------------------- start_session
\* Mutants of the early return: no check at all, and a check of the
\* process's liveness in place of the handle.
AlreadyRunning_NoGuard == FALSE
AlreadyRunning_ChecksAlive == child_pid # None /\ proc[child_pid] = "running"

\* The early return of start_session.
AlreadyRunning == child_pid # None

Unborn == {p \in PIDs : proc[p] = "unborn"}
FreeFDs == FDs \ fd_open

\* What can happen once start_session is past its early return: pty.fork
\* raises, or it forks and then fcntl or add_reader raises, or all succeeds.
StartOutcomes ==
  IF Unborn = {} \/ FreeFDs = {}
  THEN {"fork_fail"}
  ELSE {"fork_fail", "fcntl_fail", "add_reader_fail", "ok"}

FailedToStart == Msg("Failed to start terminal session")

StartSessionBody(outcome, split) ==
  IF outcome = "fork_fail"
  THEN StopSessionBody(master_fd, child_pid, readers, fd_open, proc,
                       <<FailedToStart>>, <<Sys("fork", None)>>)
  ELSE
    LET pid == Min(Unborn)
        fd  == Min(FreeFDs)
        prc == [proc EXCEPT ![pid] = "running"]
        forked == <<Sys("fork", pid)>>
    IN CASE outcome = "fcntl_fail" ->
              StopSessionBody(fd, pid, readers, fd_open \cup {fd}, prc,
                              <<FailedToStart>>,
                              forked \o <<Sys("fcntl", fd)>>)
         [] outcome = "add_reader_fail" ->
              StopSessionBody(fd, pid, readers, fd_open \cup {fd}, prc,
                              <<FailedToStart>>,
                              forked \o <<Sys("fcntl", fd),
                                          Sys("add_reader", fd)>>)
         [] outcome = "ok" ->
              /\ child_pid' = pid
              /\ master_fd' = fd
              /\ proc' = prc
              /\ fd_open' = fd_open \cup {fd}
              /\ readers' = readers \cup {fd}
              /\ pty_winsize' = GetTerminalSize(term_size)
              /\ sigwinch_handler' = "handle_resize"
              /\ sys_msgs' = <<Msg("Terminal session started.")>>
              /\ syscalls' = forked \o <<Sys("fcntl", fd),
                                         Sys("add_reader", fd),
                                         Sys("ioctl_TIOCSWINSZ", fd),
                                         Sys("signal_SIGWINCH", None)>>
              /\ stopped_cbs' = 0
              /\ ui_updates' = 0
              /\ is_split' = split
              /\ UNCHANGED <<sigtermed, terminal_output>>

\* start_session called while state.is_split has the value split.
StartSessionCall(split) ==
  IF AlreadyRunning
  THEN /\ UNCHANGED <<session, sigwinch_handler, terminal_output>>
       /\ is_split' = split
       /\ sys_msgs' = <<>>
       /\ stopped_cbs' = 0
       /\ ui_updates' = 0
       /\ syscalls' = <<>>
  ELSE \E outcome \in StartOutcomes : StartSessionBody(outcome, split)

\* What an operation that reads nothing and returns nothing leaves behind.
NoReturn ==
  /\ ret' = <<>>
  /\ raised' = FALSE
  /\ read_result' = "none"
  /\ read_data' = <<>>
  /\ arg' = <<>>

\* Mutant: every start gives the new session an empty ledger and a blank
\* screen.
StartSession_StartsAfresh ==
  /\ op' = "start_session"
  /\ NoReturn
  /\ full_output_buffer' = <<>>
  /\ last_output_position' = 0
  /\ pyte_fed' = <<>>
  /\ pyte_screen' = BlankScreen
  /\ UNCHANGED <<geometry, pc>>
  /\ StartSessionCall(is_split)

\* start_session as the controller's operation.
StartSession ==
  /\ op' = "start_session"
  /\ NoReturn
  /\ UNCHANGED <<ledger, emulator, geometry, pc>>
  /\ StartSessionCall(is_split)

\* ------------------------------------------------- _read_terminal_output
\* Mutant: the ledger assigned the new chunk instead of extended by it.
Extended_Replaces(buf, data) == data

\* self.full_output_buffer.extend(data)
Extended(buf, data) == buf \o data

ReadOutcomes == {"data", "eof", "eio", "eagain"}

\* The event loop runs the callback for a registered descriptor; a call
\* that arrives when master_fd is None returns at once.
ReadTerminalOutput ==
  /\ master_fd = None \/ master_fd \in readers
  /\ op' = "read"
  /\ arg' = <<>>
  /\ UNCHANGED <<geometry, pc>>
  /\ ret' = <<>>
  /\ raised' = FALSE
  /\ UNCHANGED last_output_position
  /\ IF master_fd = None
     THEN /\ UNCHANGED <<session, hoststate, full_output_buffer, emulator>>
          /\ sys_msgs' = <<>>
          /\ stopped_cbs' = 0
          /\ ui_updates' = 0
          /\ syscalls' = <<>>
          /\ read_result' = "none"
          /\ read_data' = <<>>
     ELSE \E outcome \in ReadOutcomes :
            /\ read_result' = outcome
            /\ IF outcome = "data"
               THEN \E data \in Chunks(MaxChunk) :
                      /\ Len(full_output_buffer) + Len(data) <= MaxBuf
                      /\ read_data' = data
                      /\ full_output_buffer' =
                            Extended(full_output_buffer, data)
                      /\ pyte_fed' = pyte_fed \o data
                      /\ pyte_screen' = Feed(pyte_screen, data)
                      /\ ui_updates' = 1
                      /\ sys_msgs' = <<>>
                      /\ stopped_cbs' = 0
                      /\ syscalls' = <<SysData("read", master_fd, data)>>
                      /\ UNCHANGED <<session, hoststate>>
               ELSE /\ read_data' = <<>>
                    /\ StopSessionBody(master_fd, child_pid, readers, fd_open,
                                       proc, <<>>,
                                       <<Sys("read", master_fd)>>)
                    /\ UNCHANGED <<full_output_buffer, emulator>>

\* The child process ends by itself (the shell exits or is killed).
ChildExit ==
  /\ \E p \in PIDs :
       /\ proc[p] = "running"
       /\ proc' = [proc EXCEPT ![p] = "zombie"]
  /\ op' = "child_exit"
  /\ NoReturn
  /\ sys_msgs' = <<>>
  /\ stopped_cbs' = 0
  /\ ui_updates' = 0
  /\ syscalls' = <<>>
  /\ UNCHANGED <<child_pid, master_fd, readers, fd_open, sigtermed,
                 pty_winsize, ledger, emulator, hoststate,
                 geometry, pc>>

\* ------------------------------------------ the forked child, before exec
\* The child branch of start_session runs inside the same try block as the
\* parent branch.  os.execv fails in the child that the last start_session
\* forked (the shell is missing or not executable): the OSError is raised
\* in the child's copy of the host, where child_pid and master_fd are None.
ChildExecFails ==
  /\ op = "start_session"
  /\ child_pid # None
  /\ proc[child_pid] = "running"
  /\ proc' = [proc EXCEPT ![child_pid] = "exec_failed"]
  /\ op' = "child_exec_failed"
  /\ NoReturn
  /\ sys_msgs' = <<>>
  /\ stopped_cbs' = 0
  /\ ui_updates' = 0
  /\ syscalls' = <<>>
  /\ UNCHANGED <<child_pid, master_fd, readers, fd_open, sigtermed,
                 pty_winsize, ledger, emulator, hoststate, geometry, pc>>

\* One statement of the except block, run by the child p on its own copy of
\* the host: nothing of the parent changes but the child's position.
ChildStep(p, to) ==
  /\ proc' = [proc EXCEPT ![p] = to]
  /\ op' = to
  /\ NoReturn
  /\ sys_msgs' = <<>>
  /\ stopped_cbs' = 0
  /\ ui_updates' = 0
  /\ syscalls' = <<>>
  /\ UNCHANGED <<child_pid, master_fd, readers, fd_open, sigtermed,
                 pty_winsize, ledger, emulator, hoststate, geometry, pc>>

\* except Exception: add_system_message_callback("system", "Failed to
\* start terminal session: ...") in the child.
ChildReportsFailure ==
  \E p \in PIDs : proc[p] = "exec_failed" /\ ChildStep(p, "child_messaged")

\* self.stop_session() in the child: no descriptor and no pid to release,
\* but the message, the redraw, the signal reset and the callback run.
ChildStopsSession ==
  \E p \in PIDs : proc[p] = "child_messaged" /\ ChildStep(p, "child_stopped")

\* start_session returns in the child, into handle_input and the event
\* loop: the child goes on as a second copy of the host.
ChildReturnsToHost ==
  \E p \in PIDs : proc[p] = "child_stopped" /\ ChildStep(p, "host_copy")

\* The reader callback statement by statement, for the size-change handler
\* to interrupt: os.read has returned data (pc "got"), the ledger has been
\* extended ("extended"), the emulator has been fed ("fed"), and with the
\* redraw request the callback returns.
ReadBegin ==
  /\ pc = "idle"
  /\ master_fd # None
  /\ master_fd \in readers
  /\ \E data \in Chunks(MaxChunk) :
       /\ Len(full_output_buffer) + Len(data) <= MaxBuf
       /\ read_data' = data
       /\ syscalls' = <<SysData("read", master_fd, data)>>
  /\ pc' = "got"
  /\ op' = "read"
  /\ read_result' = "data"
  /\ ret' = <<>>
  /\ raised' = FALSE
  /\ arg' = <<>>
  /\ sys_msgs' = <<>>
  /\ stopped_cbs' = 0
  /\ ui_updates' = 0
  /\ UNCHANGED <<session, ledger, emulator, hoststate, geometry>>

ReadExtend ==
  /\ pc = "got"
  /\ pc' = "extended"
  /\ full_output_buffer' = Extended(full_output_buffer, read_data)
  /\ UNCHANGED <<session, last_output_position, emulator, hoststate,
                 geometry, observed>>

ReadFeed ==
  /\ pc = "extended"
  /\ pc' = "fed"
  /\ pyte_fed' = pyte_fed \o read_data
  /\ pyte_screen' = Feed(pyte_screen, read_data)
  /\ UNCHANGED <<session, ledger, hoststate, geometry, observed>>

ReadDone ==
  /\ pc = "fed"
  /\ pc' = "idle"
  /\ ui_updates' = 1
  /\ UNCHANGED <<session, ledger, emulator, hoststate, geometry, op, ret,
                 raised, sys_msgs, stopped_cbs, syscalls, read_result,
                 read_data, arg>>

\* ---------------------------------------------------------------- resize
\* Mutant: _set_pty_size without its master_fd check.
PtySizeAfterSet_NoGuard(fd, winsize, reported) == GetTerminalSize(reported)

\* _set_pty_size: the window size of the pty afterwards, when the host
\* terminal reports the size reported.
PtySizeAfterSet(fd, winsize, reported) ==
  IF fd = None THEN winsize ELSE GetTerminalSize(reported)

SetPtySizeCalls(fd) ==
  IF fd = None THEN <<>> ELSE <<Sys("ioctl_TIOCSWINSZ", fd)>>

\* _set_pty_size called by itself (as _set_initial_pty_size does).
SetPtySize ==
  /\ pc = "idle"
  /\ op' = "set_pty_size"
  /\ NoReturn
  /\ pty_winsize' = PtySizeAfterSet(master_fd, pty_winsize, term_size)
  /\ syscalls' = SetPtySizeCalls(master_fd)
  /\ sys_msgs' = <<>>
  /\ stopped_cbs' = 0
  /\ ui_updates' = 0
  /\ UNCHANGED <<child_pid, master_fd, readers, fd_open, proc, sigtermed,
                 ledger, emulator, hoststate, geometry, pc>>

\* Mutant: the handler rebuilds the screen from the ledger.
ResizeScreen_Replays(scr, buf) == Feed(BlankScreen, buf)

\* What _handle_resize does to the pyte screen: nothing, it only sets the
\* size of the pty.
ResizeScreen(scr, buf) == scr

\* The host terminal changes its size and the process gets SIGWINCH, at
\* any point of the reader callback.  With the controller's handler
\* installed _handle_resize runs; the default disposition ignores the signal.
Sigwinch ==
  /\ pc # "idle" => Len(syscalls) <= MaxSignals
  /\ \E size \in TermSizes \ {term_size} : term_size' = size
  /\ UNCHANGED <<child_pid, master_fd, readers, fd_open, proc, sigtermed,
                 ledger, pyte_fed, pyte_size, hoststate, pc>>
  /\ IF sigwinch_handler = "handle_resize"
     THEN /\ pty_winsize' = PtySizeAfterSet(master_fd, pty_winsize, term_size')
          /\ pyte_screen' = ResizeScreen(pyte_screen, full_output_buffer)
          /\ syscalls' = (IF pc = "idle" THEN <<>> ELSE syscalls)
                            \o SetPtySizeCalls(master_fd)
     ELSE /\ UNCHANGED <<pty_winsize, pyte_screen>>
          /\ syscalls' = IF pc = "idle" THEN <<>> ELSE syscalls
  /\ IF pc = "idle"
     THEN /\ op' = "sigwinch"
          /\ NoReturn
          /\ sys_msgs' = <<>>
          /\ stopped_cbs' = 0
          /\ ui_updates' = 0
     ELSE UNCHANGED <<op, ret, raised, read_result, read_data, arg, sys_msgs,
                      stopped_cbs, ui_updates>>

\* --------------------------------------------------------------- ledger
\* Mutant: the full output shares the read cursor of the new output.
FullOutput_FromOffset(buf, pos) == Decode(SubSeq(buf, pos + 1, Len(buf)))

\* get_full_terminal_output: the whole buffer, whatever the read offset is.
FullOutput(buf, pos) == Decode(buf)

GetFullTerminalOutput ==
  /\ op' = "get_full_output"
  /\ ret' = FullOutput(full_output_buffer, last_output_position)
  /\ raised' = FALSE
  /\ sys_msgs' = <<>>
  /\ stopped_cbs' = 0
  /\ ui_updates' = 0
  /\ syscalls' = <<>>
  /\ read_result' = "none"
  /\ read_data' = <<>>
  /\ arg' = <<>>
  /\ UNCHANGED persistent

\* Mutants of get_new_terminal_output: the offset set to the number of new
\* bytes (none: 0); the slice taken from the start of the buffer; a single
\* new byte taken for nothing new; the offset advanced to one byte before the
\* end.
NewOutput_AdvanceByCount(buf, pos) ==
  IF Len(buf) <= pos
  THEN <<<<>>, 0>>
  ELSE <<Decode(SubSeq(buf, pos + 1, Len(buf))), Len(buf) - pos>>

NewOutput_FromStart(buf, pos) ==
  IF Len(buf) <= pos
  THEN <<<<>>, pos>>
  ELSE <<Decode(buf), Len(buf)>>

NewOutput_SkipsSingleByte(buf, pos) ==
  IF Len(buf) <= pos + 1
  THEN <<<<>>, pos>>
  ELSE <<Decode(SubSeq(buf, pos + 1, Len(buf))), Len(buf)>>

NewOutput_OffByOne(buf, pos) ==
  IF Len(buf) <= pos
  THEN <<<<>>, pos>>
  ELSE <<Decode(SubSeq(buf, pos + 1, Len(buf))), Len(buf) - 1>>

\* Mutant: the range handed out starts one byte before the offset, so the
\* last byte handed out before is handed out again.
NewOutput_Overlaps(buf, pos) ==
  IF Len(buf) <= pos
  THEN <<<<>>, pos>>
  ELSE <<Decode(SubSeq(buf, Max(pos, 1), Len(buf))), Len(buf)>>

\* get_new_terminal_output as a pair <<returned text, new offset>>.
NewOutput(buf, pos) ==
  IF Len(buf) <= pos
  THEN <<<<>>, pos>>
  ELSE <<Decode(SubSeq(buf, pos + 1, Len(buf))), Len(buf)>>

GetNewTerminalOutput ==
  /\ op' = "get_new_output"
  /\ ret' = NewOutput(full_output_buffer, last_output_position)[1]
  /\ last_output_position' =
        NewOutput(full_output_buffer, last_output_position)[2]
  /\ raised' = FALSE
  /\ sys_msgs' = <<>>
  /\ stopped_cbs' = 0
  /\ ui_updates' = 0
  /\ syscalls' = <<>>
  /\ read_result' = "none"
  /\ read_data' = <<>>
  /\ arg' = <<>>
  /\ UNCHANGED <<session, full_output_buffer, emulator, hoststate,
                 geometry, pc>>

\* ------------------------------------------- get_formatted_terminal_output
\* The colour tables of the renderer: pyte's names and their bright
\* variants go to prompt_toolkit's names, anything else to 'default'.
AnsiColor(color) ==
  CASE color \in {"black", "brightblack"} -> "ansiblack"
    [] color \in {"red", "brightred"} -> "ansired"
    [] color \in {"green", "brightgreen"} -> "ansigreen"
    [] color \in {"yellow", "brightyellow"} -> "ansiyellow"
    [] color \in {"blue", "brightblue"} -> "ansiblue"
    [] color \in {"magenta", "brightmagenta"} -> "ansimagenta"
    [] color \in {"cyan", "brightcyan"} -> "ansicyan"
    [] color \in {"white", "brightwhite"} -> "ansiwhite"
    [] OTHER -> "default"

\* The style string of one cell as the list of its words: the colours, the
\* attributes, and one more "reverse" for the cell under a visible cursor.
CharStyle(char, is_cursor) ==
  (IF char.fg # "default" THEN <<<<"fg", AnsiColor(char.fg)>>>> ELSE <<>>)
  \o (IF char.bg # "default" THEN <<<<"bg", AnsiColor(char.bg)>>>> ELSE <<>>)
  \o (IF char.bold THEN <<<<"bold">>>> ELSE <<>>)
  \o (IF char.italics THEN <<<<"italic">>>> ELSE <<>>)
  \o (IF char.underscore THEN <<<<"underline">>>> ELSE <<>>)
  \o (IF char.reverse THEN <<<<"reverse">>>> ELSE <<>>)
  \o (IF is_cursor THEN <<<<"reverse">>>> ELSE <<>>)

\* The cells of screen row y (0-based); a row nothing was written to has
\* none.
RowCells(scr, y) ==
  IF y + 1 <= Len(scr.buffer) THEN scr.buffer[y + 1] ELSE <<>>

IsCursor(scr, y, x) ==
  ~scr.cursor.hidden /\ scr.cursor.y = y /\ scr.cursor.x = x

\* A run of the projection: a style and the characters drawn in it.
Fragment(style, text) == <<style, text>>
RowBreak == Fragment(<<>>, <<10>>)

\* The inner loop of the renderer over the cells of row y from cell x
\* (1-based) on, with the style and the characters collected so far: the
\* runs it appends.  The collected run is closed only when the style
\* changes and characters have been collected.
RECURSIVE RowFragments(_, _, _, _, _)
RowFragments(scr, y, x, current_style, line_fragments) ==
  LET cells == RowCells(scr, y)
  IN IF x > Len(cells)
     THEN (IF line_fragments # <<>>
           THEN <<Fragment(current_style, line_fragments)>>
           ELSE <<>>)
     ELSE LET style == CharStyle(cells[x], IsCursor(scr, y, x - 1))
          IN IF style # current_style /\ line_fragments # <<>>
             THEN <<Fragment(current_style, line_fragments)>>
                  \o RowFragments(scr, y, x + 1, style, <<cells[x].data>>)
             ELSE RowFragments(scr, y, x + 1, current_style,
                               line_fragments \o <<cells[x].data>>)

\* The outer loop from row y on: each row's runs followed by a row break.
RECURSIVE ScreenFragments(_, _, _)
ScreenFragments(scr, y, rows) ==
  IF y >= rows THEN <<>>
  ELSE RowFragments(scr, y, 1, <<>>, <<>>) \o <<RowBreak>>
       \o ScreenFragments(scr, y + 1, rows)

\* get_formatted_terminal_output for a screen of the given number of rows:
\* the runs of all rows, without the row break after the last row.
Project(scr, rows) ==
  LET lines == ScreenFragments(scr, 0, rows)
  IN IF lines # <<>> /\ lines[Len(lines)] = RowBreak
     THEN SubSeq(lines, 1, Len(lines) - 1)
     ELSE lines

\* Mutant: rendering marks the output as seen.
GetFormattedTerminalOutput_AdvancesOffset ==
  /\ op' = "render"
  /\ ret' = Project(pyte_screen, pyte_size[1])
  /\ last_output_position' = Len(full_output_buffer)
  /\ raised' = FALSE
  /\ sys_msgs' = <<>>
  /\ stopped_cbs' = 0
  /\ ui_updates' = 0
  /\ syscalls' = <<>>
  /\ read_result' = "none"
  /\ read_data' = <<>>
  /\ arg' = <<>>
  /\ UNCHANGED <<session, full_output_buffer, emulator, hoststate, geometry,
                 pc>>

GetFormattedTerminalOutput ==
  /\ op' = "render"
  /\ ret' = Project(pyte_screen, pyte_size[1])
  /\ raised' = FALSE
  /\ sys_msgs' = <<>>
  /\ stopped_cbs' = 0
  /\ ui_updates' = 0
  /\ syscalls' = <<>>
  /\ read_result' = "none"
  /\ read_data' = <<>>
  /\ arg' = <<>>
  /\ UNCHANGED persistent

\* Screens for the renderer to project: one or two rows of one or two
\* cells, plain, bold, red or bright red, with the cursor on or off them.
CellKinds ==
  {DefaultChar(65),
   Char(65, "default", "default", TRUE, FALSE, FALSE, FALSE),
   Char(66, "red", "default", FALSE, FALSE, FALSE, FALSE),
   Char(67, "brightred", "default", FALSE, FALSE, FALSE, FALSE)}
Rows == UNION {[1 .. n -> CellKinds] : n \in 1 .. 2}
Screens ==
  {[pending |-> <<>>, buffer |-> buf,
    cursor |-> [y |-> cy, x |-> cx, hidden |-> h]] :
     buf \in UNION {[1 .. n -> Rows] : n \in 1 .. 2},
     cy \in 0 .. 1, cx \in 0 .. 1, h \in BOOLEAN}

\* ---------------------------------------------------------------- writes
\* Texts a host types: "a" (one byte) and U+00E9 (two bytes).
InputTexts == {<<97>>, <<233>>}

\* str.encode(): UTF-8, one byte below U+0080 and two bytes for U+00E9.
RECURSIVE Encode(_)
Encode(text) ==
  IF text = <<>> THEN <<>>
  ELSE (IF text[1] = 233 THEN <<195, 169>> ELSE <<text[1]>>)
       \o Encode(Tail(text))

\* What one os.write(master_fd, bytes) can do: accept the first k bytes
\* (all of them, or fewer: a partial write) or raise OSError.
OSErrorRaised == -1
WriteOutcomes(bytes) == (1 .. Len(bytes)) \cup {OSErrorRaised}

\* The single os.write a write method makes: the bytes passed, and the
\* number of bytes the pty accepted or OSErrorRaised.
WriteCalls(bytes, w) ==
  <<[call |-> "write", arg |-> master_fd, data |-> bytes, result |-> w]>>

\* Mutant: write_input without its master_fd check; os.write(None, ...)
\* raises TypeError, which the handler for OSError does not catch.
WriteInputCall_NoGuard(data) ==
  IF master_fd = None
  THEN /\ syscalls' = <<>>
       /\ raised' = TRUE
  ELSE \E w \in WriteOutcomes(Encode(data)) :
         /\ syscalls' = WriteCalls(Encode(data), w)
         /\ raised' = (w = OSErrorRaised)

\* write_input: on OSError the handler calls self._add_system_message, which
\* the class does not define, so an AttributeError leaves the method.
WriteInputCall(data) ==
  IF master_fd = None
  THEN /\ syscalls' = <<>>
       /\ raised' = FALSE
  ELSE \E w \in WriteOutcomes(Encode(data)) :
         /\ syscalls' = WriteCalls(Encode(data), w)
         /\ raised' = (w = OSErrorRaised)

WriteInput ==
  /\ op' = "write_input"
  /\ \E data \in InputTexts : WriteInputCall(data)
  /\ ret' = <<>>
  /\ sys_msgs' = <<>>
  /\ stopped_cbs' = 0
  /\ ui_updates' = 0
  /\ read_result' = "none"
  /\ read_data' = <<>>
  /\ arg' = <<>>
  /\ UNCHANGED persistent

WriteKeystrokesCall(keystrokes) ==
  IF master_fd = None
  THEN /\ syscalls' = <<>>
       /\ sys_msgs' = <<>>
  ELSE \E w \in WriteOutcomes(Encode(keystrokes)) :
         /\ syscalls' = WriteCalls(Encode(keystrokes), w)
         /\ sys_msgs' = IF w = OSErrorRaised
                        THEN <<Msg("Error writing keystrokes to terminal")>>
                        ELSE <<>>

WriteKeystrokes ==
  /\ op' = "write_keystrokes"
  /\ \E keystrokes \in InputTexts : WriteKeystrokesCall(keystrokes)
  /\ NoReturn
  /\ stopped_cbs' = 0
  /\ ui_updates' = 0
  /\ UNCHANGED persistent

\* ------------------------------------------- stop_session, step by step
\* stop_session statement by statement, for the size-change handler to
\* interrupt: the reader is removed (pc "stop_removed"), the descriptor is
\* closed ("stop_closed"), master_fd is set to None ("stop_fd_none"),
\* SIGTERM is sent ("stop_killed"), child_pid is set to None
\* ("stop_pid_none"), the user is told ("stop_told"), SIGWINCH goes back to
\* SIG_DFL ("stop_restored") and the callback runs.
StopPcs == {"stop_removed", "stop_closed", "stop_fd_none", "stop_killed",
            "stop_pid_none", "stop_told", "stop_restored"}

\* if self.master_fd is not None: self.loop.remove_reader(self.master_fd)
StopRemoveReader ==
  /\ pc = "idle"
  /\ op' = "stop_session"
  /\ NoReturn
  /\ sys_msgs' = <<>>
  /\ stopped_cbs' = 0
  /\ ui_updates' = 0
  /\ IF master_fd # None
     THEN /\ readers' = readers \ {master_fd}
          /\ syscalls' = <<Sys("remove_reader", master_fd)>>
          /\ pc' = "stop_removed"
     ELSE /\ readers' = readers
          /\ syscalls' = <<>>
          /\ pc' = "stop_fd_none"
  /\ UNCHANGED <<child_pid, master_fd, fd_open, proc, sigtermed,
                 pty_winsize, ledger, emulator, hoststate, geometry>>

\* os.close(self.master_fd)
StopClose ==
  /\ pc = "stop_removed"
  /\ pc' = "stop_closed"
  /\ fd_open' = fd_open \ {master_fd}
  /\ pty_winsize' = UnsetWinsize
  /\ syscalls' = Append(syscalls, Sys("close", master_fd))
  /\ UNCHANGED <<child_pid, master_fd, readers, proc, sigtermed, ledger,
                 emulator, hoststate, geometry, op, ret, raised, sys_msgs,
                 stopped_cbs, ui_updates, read_result, read_data, arg>>

\* self.master_fd = None
StopClearFd ==
  /\ pc = "stop_closed"
  /\ pc' = "stop_fd_none"
  /\ master_fd' = None
  /\ UNCHANGED <<child_pid, readers, fd_open, proc, sigtermed, pty_winsize,
                 ledger, emulator, hoststate, geometry, observed>>

\* if self.child_pid is not None: os.kill(self.child_pid, signal.SIGTERM)
StopKill ==
  /\ pc = "stop_fd_none"
  /\ IF child_pid # None
     THEN /\ sigtermed' = sigtermed \cup {child_pid}
          /\ syscalls' = Append(syscalls, Sys("kill_SIGTERM", child_pid))
          /\ pc' = "stop_killed"
     ELSE /\ UNCHANGED <<sigtermed, syscalls>>
          /\ pc' = "stop_pid_none"
  /\ UNCHANGED <<child_pid, master_fd, readers, fd_open, proc, pty_winsize,
                 ledger, emulator, hoststate, geometry, op, ret, raised,
                 sys_msgs, stopped_cbs, ui_updates, read_result, read_data,
                 arg>>

\* self.child_pid = None
StopClearPid ==
  /\ pc = "stop_killed"
  /\ pc' = "stop_pid_none"
  /\ child_pid' = None
  /\ UNCHANGED <<master_fd, readers, fd_open, proc, sigtermed, pty_winsize,
                 ledger, emulator, hoststate, geometry, observed>>

\* terminal_output is reset, "Terminal session stopped." is added and the
\* UI is redrawn.
StopTell ==
  /\ pc = "stop_pid_none"
  /\ pc' = "stop_told"
  /\ terminal_output' = "empty"
  /\ sys_msgs' = Append(sys_msgs, Msg("Terminal session stopped."))
  /\ ui_updates' = 1
  /\ UNCHANGED <<session, ledger, emulator, sigwinch_handler, is_split,
                 geometry, op, ret, raised, stopped_cbs, syscalls,
                 read_result, read_data, arg>>

\* signal.signal(signal.SIGWINCH, signal.SIG_DFL)
StopRestoreSignal ==
  /\ pc = "stop_told"
  /\ pc' = "stop_restored"
  /\ sigwinch_handler' = "default"
  /\ UNCHANGED <<session, ledger, emulator, terminal_output, is_split,
                 geometry, observed>>

\* self.session_stopped_callback()
StopCallback ==
  /\ pc = "stop_restored"
  /\ pc' = "idle"
  /\ stopped_cbs' = 1
  /\ OnTerminalSessionStopped
  /\ UNCHANGED <<session, ledger, emulator, sigwinch_handler,
                 terminal_output, geometry, op, ret, raised, sys_msgs,
                 ui_updates, syscalls, read_result, read_data, arg>>

IsSetWinsize(c) == c.call = "ioctl_TIOCSWINSZ"

\* TIOCSWINSZ on descriptor fd: on a closed descriptor the ioctl fails with
\* EBADF, which _set_pty_size catches and prints.
SetWinsizeCall(fd, fopen) ==
  [call |-> "ioctl_TIOCSWINSZ", arg |-> fd, data |-> <<>>,
   result |-> IF fd \in fopen THEN 0 ELSE OSErrorRaised]

\* The host terminal changes its size and SIGWINCH is delivered between two
\* statements of stop_session: with the controller's handler installed
\* _handle_resize runs _set_pty_size on whatever master_fd holds.
SigwinchWhileStopping ==
  /\ pc \in StopPcs
  /\ Len(SelectSeq(syscalls, IsSetWinsize)) < MaxSignals
  /\ \E size \in TermSizes \ {term_size} : term_size' = size
  /\ IF sigwinch_handler = "handle_resize" /\ master_fd # None
     THEN /\ syscalls' = Append(syscalls, SetWinsizeCall(master_fd, fd_open))
          /\ pty_winsize' = IF master_fd \in fd_open
                            THEN GetTerminalSize(term_size')
                            ELSE pty_winsize
     ELSE UNCHANGED <<syscalls, pty_winsize>>
  /\ UNCHANGED <<child_pid, master_fd, readers, fd_open, proc, sigtermed,
                 ledger, emulator, pyte_size, hoststate, pc, op, ret, raised,
                 sys_msgs, stopped_cbs, ui_updates, read_result, read_data,
                 arg>>

\* ------------------------------------------------------------ ChatManager
\* One line of state.chat_history: what it shows and the request it was
\* added for (0 for a line no request added).
HistoryLine(kind, r) == [kind |-> kind, req |-> r]

\* One message of state.chat_messages_for_api.
ApiMessage(role, r) == [role |-> role, req |-> r]

\* _remove_last_message_from_history: the last line goes, whatever it is.
RemoveLastMessage(history) ==
  IF history = <<>> THEN history ELSE SubSeq(history, 1, Len(history) - 1)

\* if chat_messages_for_api and chat_messages_for_api[-1]["role"] == "user":
\*     chat_messages_for_api.pop()
PopLastUser(api) ==
  IF api # <<>> /\ api[Len(api)].role = "user"
  THEN SubSeq(api, 1, Len(api) - 1)
  ELSE api

\* A chat input: handle_input creates the task and send_message runs up to
\* its await.  The user message goes to the API history and to the chat
\* history, followed by the temporary "[Thinking...]" line.  (The host
\* starts only with a model name configured, so the early return for a
\* missing model name is not taken.)  Requests are numbered in the order
\* the user enters them.
SendMessage ==
  /\ \E r \in Requests :
       /\ send_task[r] = "new"
       /\ \A q \in Requests : q < r => send_task[q] # "new"
       /\ send_task' = [send_task EXCEPT ![r] = "awaiting"]
       /\ chat_messages_for_api' =
             Append(chat_messages_for_api, ApiMessage("user", r))
       /\ chat_history' = chat_history \o <<HistoryLine("user", r),
                                            HistoryLine("thinking", r)>>
  /\ UNCHANGED <<persistent, observed>>

\* What litellm.completion can come back with: a response with content, a
\* response without, or an exception.
CompletionOutcomes == {"response", "empty", "error"}

\* The executor finishes the completion call of an awaiting request, in any
\* order among the awaiting requests, and send_message runs to its end.
CompletionReturns ==
  /\ \E r \in Requests, outcome \in CompletionOutcomes :
       /\ send_task[r] = "awaiting"
       /\ send_task' = [send_task EXCEPT ![r] = outcome]
       /\ chat_history' =
             Append(RemoveLastMessage(chat_history), HistoryLine(outcome, r))
       /\ chat_messages_for_api' =
             IF outcome = "response"
             THEN Append(chat_messages_for_api, ApiMessage("assistant", r))
             ELSE PopLastUser(chat_messages_for_api)
  /\ UNCHANGED <<persistent, observed>>

SystemLines(history) ==
  {i \in DOMAIN history : history[i].kind = "system"}

\* A command handle_input does not know: one system line is added to the
\* chat history.
HostUnknownCommand ==
  /\ Cardinality(SystemLines(chat_history)) < MaxNotes
  /\ chat_history' = Append(chat_history, HistoryLine("system", 0))
  /\ UNCHANGED <<chat_messages_for_api, send_task, persistent, observed>>

\* ------------------------------------------------- ChatApp.handle_input
\* "/split"
HostSplit ==
  /\ op' = "host_split"
  /\ NoReturn
  /\ UNCHANGED <<ledger, emulator, geometry, pc>>
  /\ IF ~is_split
     THEN StartSessionCall(TRUE)
     ELSE /\ UNCHANGED <<session, hoststate>>
          /\ sys_msgs' = <<>>
          /\ stopped_cbs' = 0
          /\ ui_updates' = 0
          /\ syscalls' = <<>>

\* "/unsplit"
HostUnsplit ==
  /\ op' = "host_unsplit"
  /\ NoReturn
  /\ UNCHANGED <<ledger, emulator, geometry, pc>>
  /\ IF is_split
     THEN StopSessionBody(master_fd, child_pid, readers, fd_open, proc,
                          <<>>, <<>>)
     ELSE /\ UNCHANGED <<session, hoststate>>
          /\ sys_msgs' = <<>>
          /\ stopped_cbs' = 0
          /\ ui_updates' = 0
          /\ syscalls' = <<>>

NoActiveSession == Msg("No active terminal session")

\* "/get_output"
HostGetOutput ==
  /\ op' = "host_get_output"
  /\ NoReturn
  /\ stopped_cbs' = 0
  /\ ui_updates' = 0
  /\ syscalls' = <<>>
  /\ UNCHANGED <<session, full_output_buffer, emulator, hoststate,
                 geometry, pc>>
  /\ IF is_split
     THEN LET out == NewOutput(full_output_buffer, last_output_position)
          IN /\ last_output_position' = out[2]
             /\ sys_msgs' = IF out[1] # <<>>
                            THEN <<MsgText("Terminal output", out[1])>>
                            ELSE <<Msg("No new terminal output")>>
     ELSE /\ UNCHANGED last_output_position
          /\ sys_msgs' = <<NoActiveSession>>

\* "/get_full_output"
HostGetFullOutput ==
  /\ op' = "host_get_full_output"
  /\ NoReturn
  /\ stopped_cbs' = 0
  /\ ui_updates' = 0
  /\ syscalls' = <<>>
  /\ UNCHANGED persistent
  /\ sys_msgs' = IF is_split
                 THEN <<MsgText("Full terminal output",
                                Decode(full_output_buffer))>>
                 ELSE <<NoActiveSession>>

\* str.replace(old, new): every occurrence of old, found from the left and
\* not overlapping, becomes new.
RECURSIVE Replace(_, _, _)
Replace(text, old, new) ==
  IF Len(text) < Len(old) THEN text
  ELSE IF SubSeq(text, 1, Len(old)) = old
       THEN new \o Replace(SubSeq(text, Len(old) + 1, Len(text)), old, new)
       ELSE <<text[1]>> \o Replace(Tail(text), old, new)

\* The characters of the escapes: backslash, ESC, and "[200~", "[201~".
Backslash == 92
Esc == 27
PasteStart == <<91, 50, 48, 48, 126>>
PasteEnd == <<91, 50, 48, 49, 126>>

\* Mutant: the bracketed-paste markers lose their backslash and get no ESC.
Unescape_PasteWithoutEsc(text) ==
  LET n == Replace(text, <<Backslash, 110>>, <<10>>)
      t == Replace(n, <<Backslash, 116>>, <<9>>)
      e == Replace(t, <<Backslash, 101>>, <<Esc>>)
      s == Replace(e, <<Backslash>> \o PasteStart, PasteStart)
  IN Replace(s, <<Backslash>> \o PasteEnd, PasteEnd)

\* The two chains of replace calls of "/type": \n, \t and \e, then the
\* bracketed-paste markers \[200~ and \[201~.
Unescape(text) ==
  LET n == Replace(text, <<Backslash, 110>>, <<10>>)
      t == Replace(n, <<Backslash, 116>>, <<9>>)
      e == Replace(t, <<Backslash, 101>>, <<Esc>>)
      s == Replace(e, <<Backslash>> \o PasteStart, <<Esc>> \o PasteStart)
  IN Replace(s, <<Backslash>> \o PasteEnd, <<Esc>> \o PasteEnd)

\* display_text: the control characters written back as escapes, ESC before
\* the paste markers.
DisplayText(keystrokes) ==
  LET n == Replace(keystrokes, <<10>>, <<Backslash, 110>>)
      t == Replace(n, <<9>>, <<Backslash, 116>>)
      e == Replace(t, <<Esc>>, <<Backslash, 101>>)
      s == Replace(e, <<Esc>> \o PasteStart, <<Backslash>> \o PasteStart)
  IN Replace(s, <<Esc>> \o PasteEnd, <<Backslash>> \o PasteEnd)

\* Texts a user gives to "/type": a, \n, \t, \e, \[200~, \[201~ and \\n.
TypeTexts ==
  {<<97>>, <<Backslash, 110>>, <<Backslash, 116>>, <<Backslash, 101>>,
   <<Backslash>> \o PasteStart, <<Backslash>> \o PasteEnd,
   <<Backslash, Backslash, 110>>}

\* "/type <text>"
HostType ==
  /\ op' = "host_type"
  /\ ret' = <<>>
  /\ raised' = FALSE
  /\ read_result' = "none"
  /\ read_data' = <<>>
  /\ stopped_cbs' = 0
  /\ ui_updates' = 0
  /\ UNCHANGED persistent
  /\ \E text \in TypeTexts :
       /\ arg' = text
       /\ IF is_split
          THEN LET keystrokes == Unescape(text)
                   sent == MsgText("Sent keystrokes", DisplayText(keystrokes))
               IN IF master_fd = None
                  THEN /\ syscalls' = <<>>
                       /\ sys_msgs' = <<sent>>
                  ELSE \E w \in WriteOutcomes(Encode(keystrokes)) :
                         /\ syscalls' = WriteCalls(Encode(keystrokes), w)
                         /\ sys_msgs' =
                              (IF w = OSErrorRaised
                               THEN <<Msg(
                                 "Error writing keystrokes to terminal")>>
                               ELSE <<>>) \o <<sent>>
          ELSE /\ syscalls' = <<>>
               /\ sys_msgs' = <<NoActiveSession>>

\* ChatApp.handle_key_press
HostKeyPress ==
  /\ op' = "host_key_press"
  /\ ret' = <<>>
  /\ sys_msgs' = <<>>
  /\ stopped_cbs' = 0
  /\ ui_updates' = 0
  /\ read_result' = "none"
  /\ read_data' = <<>>
  /\ arg' = <<>>
  /\ UNCHANGED persistent
  /\ IF is_split
     THEN \E key_data \in InputTexts : WriteInputCall(key_data)
     ELSE /\ syscalls' = <<>>
          /\ raised' = FALSE

\* -------------------------------------------------------- specifications
\* Spec: the controller's methods called in any order by any host.
Next ==
  \/ (StartSession /\ UNCHANGED chat)
  \/ (StopSession /\ UNCHANGED chat)
  \/ (ReadTerminalOutput /\ UNCHANGED chat)
  \/ (ChildExit /\ UNCHANGED chat)
  \/ (WriteInput /\ UNCHANGED chat)
  \/ (WriteKeystrokes /\ UNCHANGED chat)
  \/ (GetFullTerminalOutput /\ UNCHANGED chat)
  \/ (GetNewTerminalOutput /\ UNCHANGED chat)
  \/ (GetFormattedTerminalOutput /\ UNCHANGED chat)

Spec == Init /\ [][Next]_vars

\* SpecHost: the controller driven only by ChatApp's commands and keys.
NextHost ==
  \/ (HostSplit /\ UNCHANGED chat)
  \/ (HostUnsplit /\ UNCHANGED chat)
  \/ (HostGetOutput /\ UNCHANGED chat)
  \/ (HostGetFullOutput /\ UNCHANGED chat)
  \/ (HostKeyPress /\ UNCHANGED chat)
  \/ (ReadTerminalOutput /\ UNCHANGED chat)
  \/ (ChildExit /\ UNCHANGED chat)

SpecHost == Init /\ [][NextHost]_vars

\* SpecFair: the life cycle of sessions (the methods and events that change
\* the session handle; writes and ledger queries leave it alone), with the
\* event loop's guarantee that the reader callback of a registered
\* descriptor keeps being run while it has something to do.
NextLife ==
  \/ (StartSession /\ UNCHANGED chat)
  \/ (StopSession /\ UNCHANGED chat)
  \/ (ReadTerminalOutput /\ UNCHANGED chat)
  \/ (ChildExit /\ UNCHANGED chat)

SpecFair ==
  /\ Init
  /\ [][NextLife]_vars
  /\ WF_vars(ReadTerminalOutput /\ UNCHANGED chat)

\* SpecResize: sessions with the host terminal changing size; the reader
\* callback runs both in one step and statement by statement, and SIGWINCH
\* arrives at any point of it.  The controller's methods run only while no
\* reader callback is in flight (the host has one thread).
NextResize ==
  \/ (pc = "idle" /\ StartSession /\ UNCHANGED chat)
  \/ (pc = "idle" /\ StopSession /\ UNCHANGED chat)
  \/ (pc = "idle" /\ ReadTerminalOutput /\ UNCHANGED chat)
  \/ (pc = "idle" /\ WriteKeystrokes /\ UNCHANGED chat)
  \/ (ReadBegin /\ UNCHANGED chat)
  \/ (ReadExtend /\ UNCHANGED chat)
  \/ (ReadFeed /\ UNCHANGED chat)
  \/ (ReadDone /\ UNCHANGED chat)
  \/ (SetPtySize /\ UNCHANGED chat)
  \/ (Sigwinch /\ UNCHANGED chat)

SpecResize == Init /\ [][NextResize]_vars

\* SpecStop: sessions whose stop_session runs statement by statement, with
\* SIGWINCH arriving between any two of its statements as well as between
\* the controller's operations.  Starts and reader callbacks run only while
\* no stop_session is in flight (the host has one thread).
NextStop ==
  \/ (pc = "idle" /\ StartSession /\ UNCHANGED chat)
  \/ (pc = "idle" /\ ReadTerminalOutput /\ UNCHANGED chat)
  \/ (pc = "idle" /\ Sigwinch /\ UNCHANGED chat)
  \/ (StopRemoveReader /\ UNCHANGED chat)
  \/ (StopClose /\ UNCHANGED chat)
  \/ (StopClearFd /\ UNCHANGED chat)
  \/ (StopKill /\ UNCHANGED chat)
  \/ (StopClearPid /\ UNCHANGED chat)
  \/ (StopTell /\ UNCHANGED chat)
  \/ (StopRestoreSignal /\ UNCHANGED chat)
  \/ (StopCallback /\ UNCHANGED chat)
  \/ (SigwinchWhileStopping /\ UNCHANGED chat)

SpecStop == Init /\ [][NextStop]_vars

\* SpecExec: sessions whose forked child may fail to exec the shell and
\* then runs on in the child branch of start_session, next to the parent's
\* operations.
NextExec ==
  \/ (StartSession /\ UNCHANGED chat)
  \/ (StopSession /\ UNCHANGED chat)
  \/ (ReadTerminalOutput /\ UNCHANGED chat)
  \/ (ChildExit /\ UNCHANGED chat)
  \/ (ChildExecFails /\ UNCHANGED chat)
  \/ (ChildReportsFailure /\ UNCHANGED chat)
  \/ (ChildStopsSession /\ UNCHANGED chat)
  \/ (ChildReturnsToHost /\ UNCHANGED chat)

SpecExec == Init /\ [][NextExec]_vars

\* SpecChat: chat inputs whose send_message tasks overlap: each task runs
\* to its await in one step and from the return of the completion call to
\* its end in another (the event loop runs one task at a time), and the
\* completion calls return in any order.
NextChat ==
  \/ SendMessage
  \/ CompletionReturns
  \/ HostUnknownCommand

SpecChat == Init /\ [][NextChat]_vars

\* SpecType: the host's "/type" command on sessions its "/split" and
\* "/unsplit" start and stop, with the child exiting by itself.  "/type"
\* changes no state of the controller, so SpecHost leaves it out.
NextType ==
  \/ (HostSplit /\ UNCHANGED chat)
  \/ (HostUnsplit /\ UNCHANGED chat)
  \/ (HostType /\ UNCHANGED chat)
  \/ (ChildExit /\ UNCHANGED chat)

SpecType == Init /\ [][NextType]_vars

\* SpecRender: the renderer applied to screens drawn from Screens, which
\* stand for what the emulator holds after output with colours, attributes
\* and cursor movements.
InitRender ==
  /\ InitController
  /\ pyte_screen \in Screens

NextRender == GetFormattedTerminalOutput /\ UNCHANGED chat

SpecRender == InitRender /\ [][NextRender]_vars

\* ================================================================ claims
\* Children the controller spawned and has not yet told to terminate.
Owned == {p \in PIDs : proc[p] # "unborn" /\ p \notin sigtermed}

\* C1: after any sequence of start_session, stop_session, read callbacks
\* and failed spawns the controller owns at most one child process and has
\* at most one reader registered; a start_session that directly follows a
\* start_session which left a session active leaves exactly one child and
\* exactly one registered reader.
C1_SingleSession ==
  /\ [](Cardinality(Owned) <= 1 /\ Cardinality(readers) <= 1)
  /\ [][(op = "start_session" /\ op' = "start_session" /\ child_pid # None)
          => (Cardinality(Owned') = 1 /\ Cardinality(readers') = 1)]_vars

\* A second start_session has returned early on an active session.
C1_Witness ==
  /\ op = "start_session"
  /\ child_pid # None
  /\ syscalls = <<>>
  /\ Cardinality(Owned) = 1
  /\ readers = {master_fd}

\* C2: start_session on an active session is a no-op: the handle, the
\* registered readers, the ledger, the read offset and the emulator input
\* are unchanged, no process is spawned (no system call at all is made) and
\* no message, session-started or other, is emitted.
C2_StartWhileActiveIsNoOp ==
  [][(op' = "start_session" /\ child_pid # None)
       => /\ UNCHANGED <<child_pid, master_fd, readers, fd_open, proc,
                         sigtermed, full_output_buffer,
                         last_output_position, pyte_fed>>
          /\ syscalls' = <<>>
          /\ sys_msgs' = <<>>]_vars

\* start_session has returned early on a session that already produced
\* output, part of it retrieved.
C2_Witness ==
  /\ op = "start_session"
  /\ child_pid # None
  /\ sys_msgs = <<>>
  /\ last_output_position > 0
  /\ Len(full_output_buffer) > last_output_position

\* C3: 0 <= last_output_position <= len(full_output_buffer) in every
\* reachable state; the offset never decreases and only
\* get_new_terminal_output changes it.
C3_OffsetInvariant ==
  /\ [](0 <= last_output_position
        /\ last_output_position <= Len(full_output_buffer))
  /\ [][/\ last_output_position' >= last_output_position
        /\ (last_output_position' # last_output_position
              => op' = "get_new_output")]_vars

\* The offset has advanced, more output arrived and the session was stopped.
C3_Witness ==
  /\ last_output_position > 0
  /\ last_output_position < Len(full_output_buffer)
  /\ op = "stop_session"

C5_SecondNewOutputEmpty ==
  [][(op = "get_new_output" /\ op' = "get_new_output")
       => (ret' = <<>> /\ last_output_position' = last_output_position)]_vars

\* A get_new_terminal_output found nothing new on a non-empty ledger.
C5_Witness ==
  /\ op = "get_new_output"
  /\ ret = <<>>
  /\ last_output_position = Len(full_output_buffer)
  /\ last_output_position > 0

\* C6 as stated: two get_new_terminal_output calls in a row with no append
\* between them both return the empty string.
C6_BothEmpty ==
  [][(op = "get_new_output" /\ op' = "get_new_output")
       => (ret = <<>> /\ ret' = <<>>)]_vars

\* C6 amended: a get_new_terminal_output call returns the empty string
\* exactly when the offset already equals the buffer length, so of two
\* calls in a row the second is always empty and the first is empty only
\* when nothing was unread.
C6_EmptyIffNothingUnread ==
  [][op' = "get_new_output"
       => /\ (ret' = <<>>) <=> (last_output_position = Len(full_output_buffer))
          /\ op = "get_new_output" => ret' = <<>>]_vars

\* The first of two calls returned text, the second nothing.
C6_Witness ==
  /\ op = "get_new_output"
  /\ ret = <<>>
  /\ last_output_position = Len(pyte_fed)
  /\ last_output_position >= 2

\* C7: get_full_terminal_output returns the decoding of the whole buffer
\* whatever the read offset is, and changes neither the offset nor the
\* buffer.
C7_FullOutputIndependent ==
  [][op' = "get_full_output"
       => /\ ret' = Decode(full_output_buffer)
          /\ UNCHANGED <<full_output_buffer, last_output_position>>]_vars

\* get_full_terminal_output has run after get_new_terminal_output advanced
\* the offset into the middle of the ledger.
C7_Witness ==
  /\ op = "get_full_output"
  /\ last_output_position > 0
  /\ last_output_position < Len(full_output_buffer)
  /\ ret = Decode(full_output_buffer)

\* C8 as stated: stopping a session (by the host, by EOF or by a read
\* error) leaves the ledger and the offset unchanged, and once a session
\* that produced output has been stopped, the host's /get_full_output
\* still hands that history to the user as long as no new session runs.
C8_HistoryRetrievableByHost ==
  /\ [][child_pid # None /\ child_pid' = None => UNCHANGED ledger]_vars
  /\ [][(/\ op' = "host_get_full_output"
         /\ child_pid = None
         /\ sigtermed # {}
         /\ full_output_buffer # <<>>)
          => sys_msgs' = <<MsgText("Full terminal output",
                                   Decode(full_output_buffer))>>]_vars

\* C9: write_input with no session active, after stop_session or before
\* any start, raises nothing, makes no system call and changes no
\* controller state.
C9_WriteInputInactiveNoOp ==
  [][(op' = "write_input" /\ child_pid = None)
       => /\ raised' = FALSE
          /\ syscalls' = <<>>
          /\ sys_msgs' = <<>>
          /\ UNCHANGED persistent]_vars

\* write_input has run on a controller whose session was stopped.
C9_Witness ==
  /\ op = "write_input"
  /\ child_pid = None
  /\ sigtermed # {}
  /\ syscalls = <<>>

\* C10 as stated: stop_session with no session active emits no system
\* message, invokes no session-stopped notification and changes no state.
C10_StopIdempotent ==
  [][(op' = "stop_session" /\ child_pid = None /\ master_fd = None)
       => /\ sys_msgs' = <<>>
          /\ stopped_cbs' = 0
          /\ UNCHANGED persistent]_vars

\* A step on which a session goes from active to stopped.
Stops == child_pid # None /\ child_pid' = None

\* C11 as stated: every step that takes a session from active to stopped
\* invokes session_stopped_callback exactly once, and no later operation on
\* the stopped session (anything but a new start_session) invokes it again.
C11_StoppedCallbackOncePerStop ==
  [][/\ Stops => stopped_cbs' = 1
     /\ (child_pid = None /\ sigtermed # {} /\ op' # "start_session")
          => stopped_cbs' = 0]_vars

\* C12 as stated: a read callback whose os.read would block leaves the
\* session active, the reader registered and the ledger, the emulator input
\* and the notifications untouched.
C12_WouldBlockIgnored ==
  [][(op' = "read" /\ read_result' = "eagain")
       => /\ UNCHANGED <<child_pid, master_fd, readers, ledger, pyte_fed>>
          /\ stopped_cbs' = 0
          /\ sys_msgs' = <<>>]_vars

\* C13: a read on an active session that yields EOF or an I/O error clears
\* child_pid and master_fd, leaves no reader registered, invokes the
\* session-stopped notification and adds a system message; and when the
\* child of the active session has exited, the session is eventually
\* stopped, given that the event loop keeps running the reader callback.
C13_EofTearsDown ==
  /\ [][(op' = "read" /\ read_result' \in {"eof", "eio"})
          => /\ child_pid' = None
             /\ master_fd' = None
             /\ readers' = {}
             /\ stopped_cbs' = 1
             /\ sys_msgs' = <<Msg("Terminal session stopped.")>>]_vars
  /\ \A p \in PIDs :
       (child_pid = p /\ proc[p] = "zombie")
         ~> (child_pid = None /\ master_fd = None /\ readers = {})

\* The reader callback met EOF after the child had exited and stopped the
\* session.
C13_Witness ==
  /\ op = "read"
  /\ read_result = "eof"
  /\ child_pid = None
  /\ stopped_cbs = 1
  /\ \E p \in sigtermed : proc[p] = "zombie"

\* A write method made an os.write that raised OSError.
WriteFailed(calls) ==
  \E i \in 1 .. Len(calls) :
    calls[i].call = "write" /\ calls[i].result = OSErrorRaised

\* C14 as stated: an OSError from os.write in write_input or
\* write_keystrokes does not leave the method as an exception; the session
\* is inactive afterwards and a system message has been added.
C14_WriteErrorStopsSession ==
  [][(op' \in {"write_input", "write_keystrokes"} /\ WriteFailed(syscalls'))
       => /\ raised' = FALSE
          /\ child_pid' = None
          /\ sys_msgs' # <<>>]_vars

\* start_session went past its early return and did not finish its set-up.
StartFailed(calls) ==
  /\ calls # <<>>
  /\ \A i \in 1 .. Len(calls) : calls[i].call # "signal_SIGWINCH"

\* C15: when pty.fork, fcntl or add_reader raises in start_session, the
\* failure is added to the chat history as a system message, child_pid and
\* master_fd are None and no reader is registered afterwards, and fork was
\* attempted exactly once.
C15_SpawnFailureReported ==
  [][(op' = "start_session" /\ StartFailed(syscalls'))
       => /\ sys_msgs'[1] = FailedToStart
          /\ child_pid' = None
          /\ master_fd' = None
          /\ readers' = {}
          /\ Cardinality({i \in 1 .. Len(syscalls') :
                            syscalls'[i].call = "fork"}) = 1]_vars

\* start_session failed after the fork: the child was told to terminate.
C15_Witness ==
  /\ op = "start_session"
  /\ StartFailed(syscalls)
  /\ Len(syscalls) > 1
  /\ child_pid = None
  /\ sigtermed # {}

\* C16: within one operation a descriptor's reader is removed before the
\* descriptor is closed; no reader is registered for a closed descriptor;
\* every os.read is made on an open descriptor; a reader callback that runs
\* when master_fd is None makes no call at all.
C16_NoReadAfterClose ==
  /\ [](readers \subseteq fd_open)
  /\ [][/\ \A i \in 1 .. Len(syscalls') :
             syscalls'[i].call = "close"
               => \E j \in 1 .. (i - 1) :
                    syscalls'[j] = Sys("remove_reader", syscalls'[i].arg)
        /\ \A i \in 1 .. Len(syscalls') :
             syscalls'[i].call = "read" => syscalls'[i].arg \in fd_open
        /\ (op' = "read" /\ master_fd = None)
             => (syscalls' = <<>> /\ read_result' = "none")]_vars

\* The reader callback ran on a stopped controller and read nothing.
C16_Witness ==
  /\ op = "read"
  /\ master_fd = None
  /\ sigtermed # {}
  /\ syscalls = <<>>
  /\ read_result = "none"

\* The bytes the pty accepted over the os.write calls of one operation.
RECURSIVE Delivered(_)
Delivered(calls) ==
  IF calls = <<>> THEN <<>>
  ELSE (IF calls[1].call = "write" /\ calls[1].result > 0
        THEN SubSeq(calls[1].data, 1, calls[1].result)
        ELSE <<>>)
       \o Delivered(Tail(calls))

\* C17 as stated: a write to an active session on which no os.write raises
\* delivers every byte of the encoded input to the pty, in order.
C17_WritesAllBytes ==
  [][(/\ op' \in {"write_input", "write_keystrokes"}
      /\ syscalls' # <<>>
      /\ ~WriteFailed(syscalls'))
       => Delivered(syscalls') = syscalls'[1].data]_vars

\* C18 as stated: a stop that sends SIGTERM to a child which is still
\* running also performs or schedules the forced kill of that child.
C18_ForcedKillFollows ==
  [][\A p \in PIDs :
       (p \notin sigtermed /\ p \in sigtermed' /\ proc[p] = "running")
         => \E i \in 1 .. Len(syscalls') :
              syscalls'[i] = Sys("kill_SIGKILL", p)]_vars

\* C19 as stated: a stop of a session whose child has already exited waits
\* for that child, so the child is no zombie afterwards.
C19_StopReapsChild ==
  [][\A p \in PIDs :
       (p \notin sigtermed /\ p \in sigtermed' /\ proc[p] = "zombie")
         => proc'[p] # "zombie"]_vars

\* C20 as stated: the window size a successful start_session sets on the
\* pty has at least 24 rows and at least 120 columns.
C20_InitialResizeFloor ==
  [][(op' = "start_session" /\ child_pid = None /\ child_pid' # None)
       => (pty_winsize'[1] >= 24 /\ pty_winsize'[2] >= 120)]_vars

\* C22: a read that returns data appends exactly the bytes read to the
\* ledger, feeds exactly those bytes to the emulator and requests a redraw;
\* so in every reachable state the ledger equals the concatenation, in
\* order, of all the chunks fed to the emulator.
C22_LedgerIsEmulatorInput ==
  /\ [](full_output_buffer = pyte_fed)
  /\ [][(op' = "read" /\ read_result' = "data")
          => /\ read_data' # <<>>
             /\ full_output_buffer' = full_output_buffer \o read_data'
             /\ pyte_fed' = pyte_fed \o read_data'
             /\ ui_updates' = 1]_vars

\* A second chunk has been read, appended and fed.
C22_Witness ==
  /\ op = "read"
  /\ read_result = "data"
  /\ Len(full_output_buffer) > Len(read_data)
  /\ pyte_fed = full_output_buffer
  /\ ui_updates = 1

C21_ResizeSetsGrid ==
  [][(op' \in {"set_pty_size", "sigwinch"} /\ pc = "idle" /\ master_fd # None)
       => /\ pyte_size' = GetTerminalSize(term_size')
          /\ pyte_screen'.cursor.y < pyte_size'[1]
          /\ pyte_screen'.cursor.x < pyte_size'[2]
          /\ pyte_screen'.buffer = pyte_screen.buffer]_vars

\* C27: with master_fd unset, _set_pty_size, called directly or by the
\* size-change handler, and write_keystrokes make no system call, raise no
\* exception, add no message and change no controller state.
C27_InactiveNoOps ==
  [][(op' \in {"set_pty_size", "write_keystrokes", "sigwinch"}
        /\ pc = "idle" /\ master_fd = None)
       => /\ syscalls' = <<>>
          /\ raised' = FALSE
          /\ sys_msgs' = <<>>
          /\ UNCHANGED <<session, ledger, emulator, hoststate, pyte_size,
                         pc>>]_vars

\* _set_pty_size has run on a controller whose session was stopped.
C27_Witness ==
  /\ op = "set_pty_size"
  /\ master_fd = None
  /\ sigtermed # {}
  /\ syscalls = <<>>
  /\ pty_winsize = UnsetWinsize

\* C29: wherever the size-change handler runs within the reader callback,
\* once the callback has returned the ledger holds every chunk read once
\* and the screen (cells and cursor) is the one those chunks produce, as
\* when the callback and the handler run one after the other.
C29_ResizeDuringRead ==
  pc = "idle"
    => /\ full_output_buffer = pyte_fed
       /\ pyte_screen = Feed(BlankScreen, full_output_buffer)

\* A reader callback has returned that the handler interrupted after its
\* os.read, on a ledger that already held earlier output.
C29_Witness ==
  /\ pc = "idle"
  /\ op = "read"
  /\ Len(syscalls) = 2
  /\ syscalls[1].call = "read"
  /\ syscalls[2].call = "ioctl_TIOCSWINSZ"
  /\ Len(full_output_buffer) > Len(read_data)
  /\ pty_winsize = GetTerminalSize(term_size)

\* The cells of row y from cell x (1-based) on, each with its resolved
\* style.
RECURSIVE StyledRow(_, _, _)
StyledRow(scr, y, x) ==
  IF x > Len(RowCells(scr, y)) THEN <<>>
  ELSE <<Fragment(CharStyle(RowCells(scr, y)[x], IsCursor(scr, y, x - 1)),
                  <<RowCells(scr, y)[x].data>>)>>
       \o StyledRow(scr, y, x + 1)

\* The cells of rows y .. rows - 1 with a row break between two rows.
RECURSIVE StyledCells(_, _, _)
StyledCells(scr, y, rows) ==
  IF y >= rows THEN <<>>
  ELSE StyledRow(scr, y, 1)
       \o (IF y + 1 < rows THEN <<RowBreak>> ELSE <<>>)
       \o StyledCells(scr, y + 1, rows)

\* The runs of a projection cut into runs of one character each.
RECURSIVE Expand(_)
Expand(runs) ==
  IF runs = <<>> THEN <<>>
  ELSE [i \in 1 .. Len(runs[1][2]) |-> Fragment(runs[1][1], <<runs[1][2][i]>>)]
       \o Expand(Tail(runs))

\* No two neighbouring runs of one row have the same style.
Coalesced(runs) ==
  \A i \in 1 .. (Len(runs) - 1) :
    (runs[i] # RowBreak /\ runs[i + 1] # RowBreak)
      => runs[i][1] # runs[i + 1][1]

\* C25 as stated: the projection shows every cell of every row, in order,
\* in a run whose style is that cell's resolved style (the cell under a
\* visible cursor reversed), with a row break between two rows, and joins
\* neighbouring cells of equal style into one run.
C25_ProjectionStyles ==
  op = "render"
    => /\ Expand(ret) = StyledCells(pyte_screen, 0, pyte_size[1])
       /\ Coalesced(ret)

\* C26: get_formatted_terminal_output changes neither the screen (cells,
\* cursor) nor the ledger, the read offset or the session, and a call that
\* directly follows another returns what that one returned.
C26_ProjectionIsPure ==
  [][op' = "render"
       => /\ UNCHANGED persistent
          /\ op = "render" => ret' = ret]_vars

\* The screen of an active session with output the host has retrieved only
\* in part was rendered.
C26_Witness ==
  /\ op = "render"
  /\ master_fd # None
  /\ last_output_position > 0
  /\ last_output_position < Len(full_output_buffer)
  /\ ret[1] = Fragment(<<>>, Decode(full_output_buffer))

\* The control characters an escaped text stands for, read in one pass from
\* the left: an escape gives its control character (the paste markers ESC
\* and their five characters), any other character gives itself.
RECURSIVE ControlText(_)
ControlText(text) ==
  IF text = <<>> THEN <<>>
  ELSE IF text[1] = Backslash /\ Len(text) >= 2 /\ text[2] \in {110, 116, 101}
       THEN <<CASE text[2] = 110 -> 10 [] text[2] = 116 -> 9 [] OTHER -> Esc>>
            \o ControlText(SubSeq(text, 3, Len(text)))
  ELSE IF /\ text[1] = Backslash
          /\ Len(text) >= 6
          /\ SubSeq(text, 2, 6) \in {PasteStart, PasteEnd}
       THEN <<Esc>> \o SubSeq(text, 2, 6)
            \o ControlText(SubSeq(text, 7, Len(text)))
  ELSE <<text[1]>> \o ControlText(Tail(text))

\* C28: "/type" on an active session replaces the escapes for newline, tab,
\* escape and the bracketed-paste markers of its text by the control
\* characters they stand for and passes exactly the encoding of that text,
\* in one os.write, to the pty.
C28_KeystrokesDecoded ==
  [][(op' = "host_type" /\ master_fd # None /\ is_split)
       => /\ Len(syscalls') = 1
          /\ syscalls'[1].call = "write"
          /\ syscalls'[1].arg = master_fd
          /\ syscalls'[1].data = Encode(ControlText(arg'))]_vars

\* "\[200~" was typed and ESC [ 2 0 0 ~ was written to the pty.
C28_Witness ==
  /\ op = "host_type"
  /\ arg = <<Backslash>> \o PasteStart
  /\ Len(syscalls) = 1
  /\ syscalls[1].data = <<Esc>> \o PasteStart
  /\ syscalls[1].result = 6

\* C30: between the controller's operations child_pid is set exactly when
\* master_fd is set, and exactly then a reader is registered, for master_fd
\* and for no other descriptor; so after any sequence of start_session,
\* stop_session, read callbacks and failed starts.
C30_HandlePartsAgree ==
  /\ (child_pid # None) <=> (master_fd # None)
  /\ master_fd # None => readers = {master_fd}
  /\ master_fd = None => readers = {}

\* A start failed after its fork, on a controller that had already run and
\* stopped a session.
C30_Witness ==
  /\ op = "start_session"
  /\ StartFailed(syscalls)
  /\ Cardinality(sigtermed) = 2
  /\ child_pid = None
  /\ master_fd = None
  /\ readers = {}

\* C31: between the host's operations state.is_split is true exactly when
\* the terminal manager holds a session (child_pid is set), whatever
\* sequence of /split, /unsplit, key presses, read callbacks (data, EOF,
\* error) and failed spawns has run.
C31_SplitTracksSession == is_split <=> (child_pid # None)

\* A /split whose spawn failed after the fork, on a host that had already
\* run and left a session: the flag is back to false and no session is held.
C31_Witness ==
  /\ op = "host_split"
  /\ StartFailed(syscalls)
  /\ sigtermed # {}
  /\ Cardinality(sigtermed) = 2
  /\ ~is_split
  /\ child_pid = None

\* C32 as stated: the size-change handler, which may run between any two
\* statements of stop_session, never issues the window-size ioctl on a
\* closed descriptor: in no reachable state is the handler installed while
\* master_fd is still set and its descriptor is already closed.
C32_HandlerNeverSeesClosedFd ==
  ~(/\ sigwinch_handler = "handle_resize"
    /\ master_fd # None
    /\ master_fd \notin fd_open)

\* C33 as stated: while a session is active the window size last set on
\* the pty equals the dimensions of the emulator grid, right after
\* start_session and after every size-change notification.
C33_PtySizeIsGridSize == child_pid # None => pty_winsize = pyte_size

\* C34 as stated: when exec of the shell fails in the forked child, the
\* child does not go on to run the host's logic: no child ever adds a
\* system message, calls stop_session or returns from start_session into
\* the host loop; only the parent does.
C34_ChildNeverRunsHost ==
  \A p \in PIDs : proc[p] \notin {"child_messaged", "child_stopped",
                                  "host_copy"}

\* C35: every byte of the ledger is handed out by get_new_terminal_output
\* exactly once and in order.  Each call returns the decoding of the byte
\* range from the old offset to the new one, the new offset is the length
\* of the ledger, nothing else moves the offset, the ledger only grows at
\* its end and the offset never passes its end; so the ranges handed out
\* are contiguous, do not overlap, and together make up
\* full_output_buffer[0 .. last_output_position].
C35_HandedOutOnceInOrder ==
  /\ [](last_output_position <= Len(full_output_buffer))
  /\ [][/\ op' = "get_new_output"
             => /\ last_output_position' = Len(full_output_buffer)
                /\ ret' = Decode(SubSeq(full_output_buffer,
                                        last_output_position + 1,
                                        last_output_position'))
                /\ full_output_buffer' = full_output_buffer
        /\ op' # "get_new_output"
             => last_output_position' = last_output_position
        /\ Len(full_output_buffer') >= Len(full_output_buffer)
        /\ SubSeq(full_output_buffer', 1, Len(full_output_buffer))
             = full_output_buffer]_vars

\* The second byte of the ledger was handed out by a call of its own, after
\* the first byte had been handed out by an earlier call.
C35_Witness ==
  /\ op = "get_new_output"
  /\ full_output_buffer = <<65, 65>>
  /\ last_output_position = 2
  /\ ret = <<65>>

\* C36: a start_session that follows a stop_session resets neither the
\* ledger nor the read offset nor the emulator grid: what the earlier
\* session printed stays a prefix of the ledger, bytes of it that were never
\* handed out are still ahead of the offset for get_new_terminal_output,
\* and what the new session prints is drawn onto the grid the old session
\* left.
C36_RestartKeepsHistory ==
  [][/\ (op' = "start_session" /\ child_pid = None /\ sigtermed # {})
          => UNCHANGED <<full_output_buffer, last_output_position, pyte_fed,
                         pyte_screen, pyte_size>>
     /\ (op' = "read" /\ read_result' = "data" /\ sigtermed # {})
          => /\ pyte_screen' = Feed(pyte_screen, read_data')
             /\ full_output_buffer' = full_output_buffer \o read_data'
     /\ (op' = "get_new_output" /\ op = "start_session" /\ sigtermed # {})
          => ret' = Decode(SubSeq(full_output_buffer,
                                  last_output_position + 1,
                                  Len(full_output_buffer)))]_vars

\* A second session has just been started: the ledger holds the byte the
\* first session printed, nobody has read it yet, and the grid still shows it.
C36_Witness ==
  /\ op = "start_session"
  /\ syscalls # <<>>
  /\ child_pid # None
  /\ sigtermed # {}
  /\ full_output_buffer = <<65>>
  /\ last_output_position = 0
  /\ pyte_screen.buffer = <<<<DefaultChar(65)>>>>

\* The send_message tasks that were started have all run to their end.
AllTasksFinished ==
  /\ \E r \in Requests : send_task[r] # "new"
  /\ \A r \in Requests : send_task[r] # "awaiting"

HasLine(kind, r) ==
  \E i \in DOMAIN chat_history : chat_history[i] = HistoryLine(kind, r)

\* C37 as stated: for any interleaving of overlapping send_message tasks,
\* once all of them have finished the chat history holds no temporary
\* "[Thinking...]" line and holds, for every request, its user message and
\* its final response or error line.
C37_HistoryCompleteWhenDone ==
  AllTasksFinished
    => /\ \A i \in DOMAIN chat_history : chat_history[i].kind # "thinking"
       /\ \A r \in Requests :
            send_task[r] # "new"
              => /\ HasLine("user", r)
                 /\ HasLine(send_task[r], r)

RECURSIVE Without(_, _)
\* The sequence seq without its elements equal to m.
Without(seq, m) ==
  IF seq = <<>> THEN <<>>
  ELSE IF seq[1] = m THEN Without(Tail(seq), m)
  ELSE <<seq[1]>> \o Without(Tail(seq), m)

\* C38 as stated: a failed or empty completion call rolls back exactly its
\* own request, also when other send_message tasks overlap with it: the
\* step that ends send_message in the error or empty-response branch takes
\* the user message of that request, and nothing else, out of
\* chat_messages_for_api, so the API history never holds the user message
\* of a failed request and never loses the user message of another one.
C38_FailureRollsBackOwnRequest ==
  [][\A r \in Requests :
       (send_task[r] = "awaiting" /\ send_task'[r] \in {"empty", "error"})
         => chat_messages_for_api' =
               Without(chat_messages_for_api, ApiMessage("user", r))]_vars

====
